---- MODULE Spec2Model ----
(***************************************************************************)
(* Model of tasker_mcp/server.py: the Endpoint Resolver (_tasker_url), the *)
(* Command Executor (_call_tasker) and the device actions built on it.     *)
(* Text is modelled as a sequence of one-character strings so that string  *)
(* building, percent-encoding and substring tests are computed.            *)
(***************************************************************************)
EXTENDS Integers, Sequences, FiniteSets, TLC

\* ------------------------------------------------------------------ bounds
NumCalls == 2
MaxNameLen == 2

Calls == 1..NumCalls

\* ------------------------------------------------------- text primitives
DigitChars == <<"0","1","2","3","4","5","6","7","8","9">>
HexChars == <<"0","1","2","3","4","5","6","7","8","9","A","B","C","D","E","F">>

RECURSIVE Digits(_)
Digits(n) == IF n < 10 THEN <<DigitChars[n + 1]>>
             ELSE Digits(n \div 10) \o <<DigitChars[(n % 10) + 1]>>

\* str(int) as used by the f-strings
IntToStr(n) == IF n < 0 THEN <<"-">> \o Digits(0 - n) ELSE Digits(n)

\* Python's "sub in s" on text
Contains(s, sub) ==
    \E k \in 0..(Len(s) - Len(sub)) : SubSeq(s, k + 1, k + Len(sub)) = sub

\* ------------------------------------------------------------ configuration
DefaultHost == <<"1","0","0",".","1","2","3",".","2","5","3",".","1","1","3">>
DefaultPort == 1821
DefaultTimeout == 5

\* values the environment may supply instead of the defaults
Hosts == {DefaultHost, <<"p","h","o","n","e">>}
Ports == {DefaultPort, 80}
Timeouts == {DefaultTimeout}

VARIABLES
    PHONE_HOST, PHONE_PORT, REQUEST_TIMEOUT,  \* module-level configuration
    pc,          \* position of each invocation
    tool,        \* the device action the dispatcher invoked
    arg,         \* its free-text argument (app_name), <<>> when it has none
    num,         \* its numeric argument as supplied, 0 when it has none
    path,        \* the path handed to _call_tasker
    clientOpen,  \* the per-call AsyncClient is open
    wire,        \* per connection: closed, a request in flight, or a reply
    sent,        \* what the responder answered to each invocation's request
    exc,         \* the exception raised inside the try block, if any
    result,      \* the value _call_tasker returns
    toolResult,  \* the value the device action returns to the dispatcher
    execCalls,   \* number of _call_tasker invocations made by the action
    gets,        \* number of GET requests issued by the invocation
    prevTool, prevPath  \* tool and path of the dispatcher's previous call

config == <<PHONE_HOST, PHONE_PORT, REQUEST_TIMEOUT>>
vars == <<PHONE_HOST, PHONE_PORT, REQUEST_TIMEOUT, pc, tool, arg, num, path,
          clientOpen, wire, sent, exc, result, toolResult, execCalls, gets,
          prevTool, prevPath>>

\* ------------------------------------------------------- Endpoint Resolver
_tasker_url(p) ==
    <<"h","t","t","p",":","/","/">> \o PHONE_HOST \o <<":">>
        \o IntToStr(PHONE_PORT) \o p

\* ---------------------------------------------------- urllib.parse.quote
AppNameChars == {"a", " ", "/", "?", "&", "#", "%"}
Ord(c) == CASE c = "a" -> 97 [] c = " " -> 32 [] c = "/" -> 47
            [] c = "?" -> 63 [] c = "&" -> 38 [] c = "#" -> 35
            [] c = "%" -> 37
\* characters quote never encodes (letters, digits, "_.-~")
AlwaysSafe == {"a", "_", ".", "-", "~"}
\* the default of quote's safe parameter, which launch_app does not override
QuoteSafe == {"/"}

PctEncode(c) == <<"%", HexChars[(Ord(c) \div 16) + 1], HexChars[(Ord(c) % 16) + 1]>>

QuoteChar(c) == IF c \in AlwaysSafe \cup QuoteSafe THEN <<c>> ELSE PctEncode(c)

RECURSIVE quote(_)
quote(s) == IF s = <<>> THEN <<>> ELSE QuoteChar(Head(s)) \o quote(Tail(s))

\* --------------------------------------------------------- action catalog
ParameterlessTools == {"torch_on", "torch_off", "volume_up", "volume_down",
                       "media_play_pause", "media_next", "media_previous"}
ToolNames == ParameterlessTools \cup {"launch_app"}

ActionPath(a, name) ==
    CASE a = "torch_on" -> <<"/","t","o","r","c","h","/","o","n">>
      [] a = "torch_off" -> <<"/","t","o","r","c","h","/","o","f","f">>
      [] a = "launch_app" ->
            <<"/","a","p","p","/","l","a","u","n","c","h","/">> \o quote(name)
      [] a = "volume_up" -> <<"/","v","o","l","u","m","e","/","u","p">>
      [] a = "volume_down" -> <<"/","v","o","l","u","m","e","/","d","o","w","n">>
      [] a = "media_play_pause" ->
            <<"/","m","e","d","i","a","/","p","l","a","y","p","a","u","s","e">>
      [] a = "media_next" -> <<"/","m","e","d","i","a","/","n","e","x","t">>
      [] a = "media_previous" ->
            <<"/","m","e","d","i","a","/","p","r","e","v","i","o","u","s">>

\* ------------------------------------------------------- Execution Result
NoResult == [none |-> TRUE]
NoExc == [type |-> "none", text |-> <<>>]
NoReply == [status |-> 0, body |-> <<>>, url |-> <<>>]
Closed == [kind |-> "closed"]

TimeoutMessage == <<"R","e","q","u","e","s","t"," ","t","i","m","e","d"," ","o","u","t">>

\* variant: the message names the host only
ConnectMessageHostOnly ==
    <<"C","a","n","n","o","t"," ","c","o","n","n","e","c","t"," ","t","o"," ",
      "p","h","o","n","e"," ","a","t"," ">> \o PHONE_HOST

ConnectMessage ==
    <<"C","a","n","n","o","t"," ","c","o","n","n","e","c","t"," ","t","o"," ",
      "p","h","o","n","e"," ","a","t"," ">>
        \o PHONE_HOST \o <<":">> \o IntToStr(PHONE_PORT)

\* variant: the body is passed on even when it is empty
TextVerbatim(text) == text

\* response.text or "OK"
TextOrOK(text) == IF text = <<>> THEN <<"O","K">> ELSE text

CompletedResult(status, text) ==
    [success |-> (status = 200), status_code |-> status, response |-> TextOrOK(text)]

\* variant: an error result that also carries a status code
ErrorResultWithStatus(msg) == [success |-> FALSE, error |-> msg, status_code |-> 0]

ErrorResult(msg) == [success |-> FALSE, error |-> msg]

\* httpx exception classes and their ancestors
Bases(t) ==
    CASE t = "ConnectTimeout" -> {"ConnectTimeout", "TimeoutException", "TransportError", "Exception"}
      [] t = "ReadTimeout" -> {"ReadTimeout", "TimeoutException", "TransportError", "Exception"}
      [] t = "ConnectError" -> {"ConnectError", "NetworkError", "TransportError", "Exception"}
      [] t = "ReadError" -> {"ReadError", "NetworkError", "TransportError", "Exception"}
      [] t = "RemoteProtocolError" -> {"RemoteProtocolError", "ProtocolError", "TransportError", "Exception"}

IsInstance(e, cls) == cls \in Bases(e.type)

\* variant: no clause for timeouts, they fall through to the generic clause
HandlerGenericOnly(e) ==
    IF IsInstance(e, "ConnectError") THEN ErrorResult(ConnectMessage)
    ELSE ErrorResult(e.text)

\* the except clauses of _call_tasker, in order
Handler(e) ==
    IF IsInstance(e, "TimeoutException") THEN ErrorResult(TimeoutMessage)
    ELSE IF IsInstance(e, "ConnectError") THEN ErrorResult(ConnectMessage)
    ELSE ErrorResult(e.text)

\* variant: one module-level client shared by all invocations
ConnOfShared(i) == 1

\* each call creates its own client, so each invocation has its own connection
ConnOf(i) == i

\* ------------------------------------------------------------- input sets
Statuses == {200, 204, 404}
Bodies == {<<>>, <<"O","K">>, <<"n","o","t"," ","f","o","u","n","d">>}
ConnectFaultTexts == {<<"A","l","l"," ","c","o","n","n","e","c","t","i","o","n"," ",
                        "a","t","t","e","m","p","t","s"," ","f","a","i","l","e","d">>}
OtherFaults == {[type |-> "ReadError", text |-> <<>>],
                [type |-> "RemoteProtocolError",
                 text |-> <<"S","e","r","v","e","r"," ","d","i","s","c","o","n","n","e","c","t","e","d">>]}

RECURSIVE SeqsUpTo(_, _)
SeqsUpTo(S, n) == IF n = 0 THEN {<<>>}
                  ELSE LET shorter == SeqsUpTo(S, n - 1)
                       IN shorter \cup {Append(s, c) : s \in shorter, c \in S}

AppNames == SeqsUpTo(AppNameChars, MaxNameLen)
SampleNames == {<<"a">>, <<"a", " ", "a">>}

\* --------------------------------------------------------------- initial
Init ==
    /\ PHONE_HOST \in Hosts
    /\ PHONE_PORT \in Ports
    /\ REQUEST_TIMEOUT \in Timeouts
    /\ pc = [i \in Calls |-> "idle"]
    /\ tool = [i \in Calls |-> "none"]
    /\ arg = [i \in Calls |-> <<>>]
    /\ num = [i \in Calls |-> 0]
    /\ path = [i \in Calls |-> <<>>]
    /\ clientOpen = [i \in Calls |-> FALSE]
    /\ wire = [c \in Calls |-> Closed]
    /\ sent = [i \in Calls |-> NoReply]
    /\ exc = [i \in Calls |-> NoExc]
    /\ result = [i \in Calls |-> NoResult]
    /\ toolResult = [i \in Calls |-> NoResult]
    /\ execCalls = [i \in Calls |-> 0]
    /\ gets = [i \in Calls |-> 0]
    /\ prevTool = "none"
    /\ prevPath = <<>>

\* --------------------------------------------------------------- actions
\* the dispatcher invokes a device action, which builds its path and calls
\* _call_tasker
ToolCall(i, a, name) ==
    /\ pc[i] = "idle"
    /\ tool' = [tool EXCEPT ![i] = a]
    /\ arg' = [arg EXCEPT ![i] = name]
    /\ path' = [path EXCEPT ![i] = ActionPath(a, name)]
    /\ execCalls' = [execCalls EXCEPT ![i] = @ + 1]
    /\ pc' = [pc EXCEPT ![i] = "entered"]
    /\ UNCHANGED <<config, num, clientOpen, wire, sent, exc, result, toolResult,
                   gets, prevTool, prevPath>>

\* async with httpx.AsyncClient(timeout=REQUEST_TIMEOUT) as client
ClientCreate(i) ==
    /\ pc[i] = "entered"
    /\ clientOpen' = [clientOpen EXCEPT ![i] = TRUE]
    /\ pc' = [pc EXCEPT ![i] = "client"]
    /\ UNCHANGED <<config, tool, arg, num, path, wire, sent, exc, result,
                   toolResult, execCalls, gets, prevTool, prevPath>>

\* the constructor raises (it runs before the try block is entered)
ClientCreateFault(i) ==
    /\ pc[i] = "entered"
    /\ pc' = [pc EXCEPT ![i] = "raised"]
    /\ UNCHANGED <<config, tool, arg, num, path, clientOpen, wire, sent, exc,
                   result, toolResult, execCalls, gets, prevTool, prevPath>>

\* client.get(url): the connection is established and the request goes out
SendGet(i) ==
    /\ pc[i] = "client"
    /\ gets' = [gets EXCEPT ![i] = @ + 1]
    /\ wire' = [wire EXCEPT ![ConnOf(i)] =
                  [kind |-> "request", from |-> i, url |-> _tasker_url(path[i])]]
    /\ pc' = [pc EXCEPT ![i] = "inflight"]
    /\ UNCHANGED <<config, tool, arg, num, path, clientOpen, sent, exc, result,
                   toolResult, execCalls, prevTool, prevPath>>

\* client.get(url): connection refused, DNS failure, network unreachable
ConnectFail(i, text) ==
    /\ pc[i] = "client"
    /\ gets' = [gets EXCEPT ![i] = @ + 1]
    /\ exc' = [exc EXCEPT ![i] = [type |-> "ConnectError", text |-> text]]
    /\ pc' = [pc EXCEPT ![i] = "except"]
    /\ UNCHANGED <<config, tool, arg, num, path, clientOpen, wire, sent, result,
                   toolResult, execCalls, prevTool, prevPath>>

\* client.get(url): no connection established within the timeout
ConnectTimeout(i) ==
    /\ pc[i] = "client"
    /\ gets' = [gets EXCEPT ![i] = @ + 1]
    /\ exc' = [exc EXCEPT ![i] = [type |-> "ConnectTimeout", text |-> <<>>]]
    /\ pc' = [pc EXCEPT ![i] = "except"]
    /\ UNCHANGED <<config, tool, arg, num, path, clientOpen, wire, sent, result,
                   toolResult, execCalls, prevTool, prevPath>>

\* the remote device answers the request on connection c
Respond(c, status, body) ==
    /\ wire[c].kind = "request"
    /\ wire' = [wire EXCEPT ![c] =
                  [kind |-> "reply", to |-> wire[c].from, status |-> status, body |-> body]]
    /\ sent' = [sent EXCEPT ![wire[c].from] =
                  [status |-> status, body |-> body, url |-> wire[c].url]]
    /\ UNCHANGED <<config, pc, tool, arg, num, path, clientOpen, exc, result,
                   toolResult, execCalls, gets, prevTool, prevPath>>

\* client.get returns the response; the result dict is built
Receive(i) ==
    /\ pc[i] = "inflight"
    /\ wire[ConnOf(i)].kind = "reply"
    /\ result' = [result EXCEPT ![i] =
                    CompletedResult(wire[ConnOf(i)].status, wire[ConnOf(i)].body)]
    /\ pc' = [pc EXCEPT ![i] = "exit"]
    /\ UNCHANGED <<config, tool, arg, num, path, clientOpen, wire, sent, exc,
                   toolResult, execCalls, gets, prevTool, prevPath>>

\* no reply within the timeout: the exchange is aborted
ReadTimeout(i) ==
    /\ pc[i] = "inflight"
    /\ wire[ConnOf(i)].kind = "request"
    /\ exc' = [exc EXCEPT ![i] = [type |-> "ReadTimeout", text |-> <<>>]]
    /\ wire' = [wire EXCEPT ![ConnOf(i)] = Closed]
    /\ pc' = [pc EXCEPT ![i] = "except"]
    /\ UNCHANGED <<config, tool, arg, num, path, clientOpen, sent, result,
                   toolResult, execCalls, gets, prevTool, prevPath>>

\* any other transport fault during the exchange
TransportFault(i, e) ==
    /\ pc[i] = "inflight"
    /\ exc' = [exc EXCEPT ![i] = e]
    /\ wire' = [wire EXCEPT ![ConnOf(i)] = Closed]
    /\ pc' = [pc EXCEPT ![i] = "except"]
    /\ UNCHANGED <<config, tool, arg, num, path, clientOpen, sent, result,
                   toolResult, execCalls, gets, prevTool, prevPath>>

\* variant: a timeout sends the request again instead of returning
HandleRetry(i) ==
    /\ pc[i] = "except"
    /\ IF IsInstance(exc[i], "TimeoutException")
         THEN /\ pc' = [pc EXCEPT ![i] = "client"]
              /\ UNCHANGED result
         ELSE /\ result' = [result EXCEPT ![i] = Handler(exc[i])]
              /\ pc' = [pc EXCEPT ![i] = "exit"]
    /\ UNCHANGED <<config, tool, arg, num, path, clientOpen, wire, sent, exc,
                   toolResult, execCalls, gets, prevTool, prevPath>>

\* the matching except clause builds the result dict
Handle(i) ==
    /\ pc[i] = "except"
    /\ result' = [result EXCEPT ![i] = Handler(exc[i])]
    /\ pc' = [pc EXCEPT ![i] = "exit"]
    /\ UNCHANGED <<config, tool, arg, num, path, clientOpen, wire, sent, exc,
                   toolResult, execCalls, gets, prevTool, prevPath>>

\* leaving the async with block closes the client and its connection
\* (AsyncClient.aclose discards the connection; no caller-initiated
\* cancellation exists, so the close runs to completion)
ClientRelease(i) ==
    /\ pc[i] = "exit"
    /\ clientOpen' = [clientOpen EXCEPT ![i] = FALSE]
    /\ wire' = [wire EXCEPT ![ConnOf(i)] = Closed]
    /\ pc' = [pc EXCEPT ![i] = "released"]
    /\ UNCHANGED <<config, tool, arg, num, path, sent, exc, result, toolResult,
                   execCalls, gets, prevTool, prevPath>>

\* variant: the action replaces a failed result by one of its own
ToolReturnOwnError(i) ==
    /\ pc[i] = "released"
    /\ toolResult' = [toolResult EXCEPT ![i] =
                        IF result[i].success THEN result[i] ELSE ErrorResult(<<>>)]
    /\ pc' = [pc EXCEPT ![i] = "returned"]
    /\ UNCHANGED <<config, tool, arg, num, path, clientOpen, wire, sent, exc,
                   result, execCalls, gets, prevTool, prevPath>>

\* return await _call_tasker(...)
ToolReturn(i) ==
    /\ pc[i] = "released"
    /\ toolResult' = [toolResult EXCEPT ![i] = result[i]]
    /\ pc' = [pc EXCEPT ![i] = "returned"]
    /\ UNCHANGED <<config, tool, arg, num, path, clientOpen, wire, sent, exc,
                   result, execCalls, gets, prevTool, prevPath>>

\* the call is over; the dispatcher may invoke another action
Reset(i) ==
    /\ pc[i] \in {"returned", "raised"}
    /\ prevTool' = tool[i]
    /\ prevPath' = path[i]
    /\ pc' = [pc EXCEPT ![i] = "idle"]
    /\ tool' = [tool EXCEPT ![i] = "none"]
    /\ arg' = [arg EXCEPT ![i] = <<>>]
    /\ num' = [num EXCEPT ![i] = 0]
    /\ path' = [path EXCEPT ![i] = <<>>]
    /\ sent' = [sent EXCEPT ![i] = NoReply]
    /\ exc' = [exc EXCEPT ![i] = NoExc]
    /\ result' = [result EXCEPT ![i] = NoResult]
    /\ toolResult' = [toolResult EXCEPT ![i] = NoResult]
    /\ execCalls' = [execCalls EXCEPT ![i] = 0]
    /\ gets' = [gets EXCEPT ![i] = 0]
    /\ UNCHANGED <<config, clientOpen, wire>>

\* ------------------------------------------------ one call at a time
Dispatch == \E a \in ToolNames : \E n \in (IF a = "launch_app" THEN SampleNames ELSE {<<>>}) :
                ToolCall(1, a, n)
Create == ClientCreate(1)
CreateFault == ClientCreateFault(1)
Send == SendGet(1)
Refuse == \E t \in ConnectFaultTexts : ConnectFail(1, t)
ConnTimeout == ConnectTimeout(1)
Reply == \E s \in Statuses, b \in Bodies : Respond(1, s, b)
Recv == Receive(1)
Expire == ReadTimeout(1)
Fault == \E e \in OtherFaults : TransportFault(1, e)
Catch == Handle(1)
Release == ClientRelease(1)
Return == ToolReturn(1)
Again == Reset(1)

Next == \/ Dispatch \/ Create \/ CreateFault \/ Send \/ Refuse \/ ConnTimeout
        \/ Reply \/ Recv \/ Expire \/ Fault \/ Catch \/ Release \/ Return
        \/ Again

Spec == Init /\ [][Next]_vars

\* ------------------------------------------- fairness of the executor
\* The event loop runs a ready coroutine to its next suspension point, the
\* reply already received is read, and the timer of a pending exchange fires.
FairSpec == /\ Spec
            /\ WF_vars(Recv) /\ WF_vars(Expire) /\ WF_vars(Catch)
            /\ WF_vars(Release) /\ WF_vars(Return)

\* ------------------------------------------------ concurrent invocations
ConcTools == {"torch_on", "volume_up"}
ConcReplies == {<<200, <<>>>>, <<404, <<"n","o","t"," ","f","o","u","n","d">>>>}
ConcFaults == {[type |-> "ReadError", text |-> <<>>]}

CDispatch == \E i \in Calls : \E a \in ConcTools : ToolCall(i, a, <<>>)
CCreate == \E i \in Calls : ClientCreate(i)
CCreateFault == \E i \in Calls : ClientCreateFault(i)
CSend == \E i \in Calls : SendGet(i)
CRefuse == \E i \in Calls : \E t \in ConnectFaultTexts : ConnectFail(i, t)
CConnTimeout == \E i \in Calls : ConnectTimeout(i)
CReply == \E c \in Calls : \E r \in ConcReplies : Respond(c, r[1], r[2])
CRecv == \E i \in Calls : Receive(i)
CExpire == \E i \in Calls : ReadTimeout(i)
CFault == \E i \in Calls : \E e \in ConcFaults : TransportFault(i, e)
CCatch == \E i \in Calls : Handle(i)
CRelease == \E i \in Calls : ClientRelease(i)
CReturn == \E i \in Calls : ToolReturn(i)

ConcNext == \/ CDispatch \/ CCreate \/ CCreateFault \/ CSend \/ CRefuse
            \/ CConnTimeout \/ CReply \/ CRecv \/ CExpire \/ CFault
            \/ CCatch \/ CRelease \/ CReturn

\* the configuration is the default one
ConcInit == Init /\ PHONE_HOST = DefaultHost /\ PHONE_PORT = DefaultPort

ConcSpec == ConcInit /\ [][ConcNext]_vars

\* ------------------------------------------- clamped setters (section 3)
SetterNames == {"set_volume", "set_brightness", "vibrate"}

SetterLow(s) == CASE s = "set_volume" -> 0 [] s = "set_brightness" -> 0
                  [] s = "vibrate" -> 100
SetterHigh(s) == CASE s = "set_volume" -> 15 [] s = "set_brightness" -> 255
                   [] s = "vibrate" -> 5000

SetterPrefix(s) ==
    CASE s = "set_volume" -> <<"/","v","o","l","u","m","e","/","s","e","t","/">>
      [] s = "set_brightness" ->
            <<"/","b","r","i","g","h","t","n","e","s","s","/","s","e","t","/">>
      [] s = "vibrate" -> <<"/","v","i","b","r","a","t","e","/">>

\* variant: only the upper limit is enforced
ClampUpperOnly(x, lo, hi) == IF x > hi THEN hi ELSE x

Clamp(x, lo, hi) == IF x < lo THEN lo ELSE IF x > hi THEN hi ELSE x

SetterPath(s, raw) ==
    SetterPrefix(s) \o IntToStr(Clamp(raw, SetterLow(s), SetterHigh(s)))

SetterCall(i, s, raw) ==
    /\ pc[i] = "idle"
    /\ tool' = [tool EXCEPT ![i] = s]
    /\ num' = [num EXCEPT ![i] = raw]
    /\ path' = [path EXCEPT ![i] = SetterPath(s, raw)]
    /\ execCalls' = [execCalls EXCEPT ![i] = @ + 1]
    /\ pc' = [pc EXCEPT ![i] = "entered"]
    /\ UNCHANGED <<config, arg, clientOpen, wire, sent, exc, result,
                   toolResult, gets, prevTool, prevPath>>

RawInputs == {-5, -1, 0, 1, 7, 15, 16, 99, 100, 101, 255, 256, 999, 4999,
              5000, 5001, 6000}

\* ------------------------------------ the actions as functions of inputs
NamedCall == \E a \in ToolNames : \E n \in (IF a = "launch_app" THEN AppNames ELSE {<<>>}) :
                ToolCall(1, a, n)
NumericCall == \E s \in SetterNames, raw \in RawInputs : SetterCall(1, s, raw)

ParamNext == NamedCall \/ NumericCall

ParamSpec == Init /\ [][ParamNext]_vars

\* ================================================================ claims
Finished(i) == pc[i] \in {"exit", "released", "returned"}
Completed(i) == Finished(i) /\ exc[i] = NoExc

\* C1: no invocation of _call_tasker ever ends by raising to the dispatcher;
\* every invocation ends by returning a result dict.
C1_NeverRaises == \A i \in Calls : pc[i] # "raised"

\* C2: the path launch_app hands to the executor is /app/launch/<one segment>
\* and holds no raw reserved character of the caller's text.
ReservedChars == {" ", "/", "?", "&", "#"}
LaunchPrefix == <<"/","a","p","p","/","l","a","u","n","c","h","/">>
C2_LaunchSingleSegment ==
    \A i \in Calls :
        (tool[i] = "launch_app" /\ pc[i] # "idle") =>
            /\ Len(path[i]) >= Len(LaunchPrefix)
            /\ SubSeq(path[i], 1, Len(LaunchPrefix)) = LaunchPrefix
            /\ \A k \in (Len(LaunchPrefix) + 1)..Len(path[i]) :
                   path[i][k] \notin ReservedChars

\* the shape of a result that reports unreachability by host and port
NamesHostAndPort(r) ==
    /\ DOMAIN r = {"success", "error"}
    /\ r.success = FALSE
    /\ Contains(r.error, PHONE_HOST)
    /\ Contains(r.error, IntToStr(PHONE_PORT))

\* C3 (as stated): whenever the host:port is unreachable, a connection
\* timeout included, the result is a failure without status_code whose error
\* contains the configured host and port.
C3_UnreachableNamesHostPort ==
    \A i \in Calls :
        (Finished(i) /\ exc[i].type \in {"ConnectError", "ConnectTimeout"}) =>
            NamesHostAndPort(result[i])

\* C3 (amended): when the connection attempt fails with a connection error
\* the result is a failure without status_code whose error contains the
\* configured host and port; when no connection is established within the
\* timeout the result is the fixed timeout message.
C3_ConnectErrorNamesHostPort ==
    \A i \in Calls :
        /\ (Finished(i) /\ exc[i].type = "ConnectError") =>
               NamesHostAndPort(result[i])
        /\ (Finished(i) /\ exc[i].type = "ConnectTimeout") =>
               result[i] = ErrorResult(TimeoutMessage)
C3_Witness ==
    /\ pc[1] = "returned" /\ exc[1].type = "ConnectError"
    /\ PHONE_PORT = 80

\* C4: every result populates exactly one of {status_code and response} or
\* {error}, and success is true iff status_code is present and equals 200.
C4_ExactlyOneAlternative ==
    \A i \in Calls :
        Finished(i) =>
            /\ \/ DOMAIN result[i] = {"success", "status_code", "response"}
               \/ DOMAIN result[i] = {"success", "error"}
            /\ result[i].success <=>
                  ("status_code" \in DOMAIN result[i] /\ result[i].status_code = 200)
C4_Witness ==
    /\ pc[1] = "returned" /\ exc[1].type = "ReadError"
    /\ "error" \in DOMAIN result[1]

\* C5: a timed-out exchange does not stay pending: the exchange is aborted,
\* the client is released and the invocation returns the failure result
\* carrying the fixed timeout message and no status_code.
TimedOut(i) == pc[i] = "except" /\ IsInstance(exc[i], "TimeoutException")
C5_TimeoutSurfaces ==
    /\ (pc[1] = "inflight") ~> (pc[1] = "returned")
    /\ TimedOut(1) ~>
          (/\ pc[1] = "returned"
           /\ toolResult[1] = [success |-> FALSE, error |-> TimeoutMessage]
           /\ ~clientOpen[1]
           /\ wire[ConnOf(1)] = Closed)
C5_Witness ==
    /\ pc[1] = "returned" /\ exc[1].type = "ReadTimeout"
    /\ toolResult[1] = [success |-> FALSE, error |-> TimeoutMessage]

OwnExchange(i) ==
    IF exc[i] = NoExc
    THEN /\ sent[i].url = _tasker_url(path[i])
         /\ result[i] = [success |-> (sent[i].status = 200),
                         status_code |-> sent[i].status,
                         response |-> IF sent[i].body = <<>> THEN <<"O","K">>
                                      ELSE sent[i].body]
    ELSE "error" \in DOMAIN result[i] /\ "status_code" \notin DOMAIN result[i]
C7_Independent ==
    /\ [](\A i \in Calls : Finished(i) => OwnExchange(i))
    /\ [](\A i \in Calls : pc[i] = "returned" => toolResult[i] = result[i])
    /\ [][config' = config]_vars
C7_Witness ==
    /\ pc[1] = "returned" /\ pc[2] = "returned"
    /\ exc[1] = NoExc /\ exc[2] = NoExc
    /\ result[1].status_code = 200 /\ result[2].status_code = 404
    /\ result[1].response # result[2].response

\* C8: a numeric parameter is clamped to its declared range before it is
\* embedded in the path: the path carries the post-clamp value.
InRange(s, v) == SetterLow(s) <= v /\ v <= SetterHigh(s)
C8_PathCarriesClamped ==
    \A i \in Calls :
        (tool[i] \in SetterNames /\ pc[i] # "idle") =>
            /\ \E v \in SetterLow(tool[i])..SetterHigh(tool[i]) :
                  /\ path[i] = SetterPrefix(tool[i]) \o IntToStr(v)
                  /\ InRange(tool[i], num[i]) => v = num[i]
                  /\ num[i] < SetterLow(tool[i]) => v = SetterLow(tool[i])
                  /\ num[i] > SetterHigh(tool[i]) => v = SetterHigh(tool[i])
            /\ ~InRange(tool[i], num[i]) =>
                  path[i] # SetterPrefix(tool[i]) \o IntToStr(num[i])
            /\ (tool[i] = "set_volume" /\ num[i] = -5) =>
                  path[i] = SetterPrefix("set_volume") \o <<"0">>
            /\ (tool[i] = "set_volume" /\ num[i] = 999) =>
                  path[i] = SetterPrefix("set_volume") \o <<"1","5">>
C8_Witness ==
    /\ tool[1] = "set_volume" /\ num[1] = -5 /\ pc[1] = "entered"
    /\ path[1] = <<"/","v","o","l","u","m","e","/","s","e","t","/","0">>

\* C9: on a completed exchange the result carries the responder's status
\* and its body unmodified, or "OK" when the body is empty.
C9_BodyVerbatimOrOK ==
    \A i \in Calls :
        Completed(i) =>
            /\ DOMAIN result[i] = {"success", "status_code", "response"}
            /\ result[i].status_code = sent[i].status
            /\ result[i].success = (sent[i].status = 200)
            /\ sent[i].body # <<>> => result[i].response = sent[i].body
            /\ sent[i].body = <<>> => result[i].response = <<"O","K">>
C9_Witness ==
    /\ pc[1] = "returned" /\ exc[1] = NoExc
    /\ sent[1].status = 404 /\ sent[1].body = <<>>
    /\ result[1].response = <<"O","K">>

\* C10: a device action returns exactly the result of its single
\* _call_tasker invocation, and a parameterless action passes the same
\* path on every call.
C10_ThinCallSite ==
    \A i \in Calls :
        /\ pc[i] = "returned" =>
              /\ toolResult[i] = result[i]
              /\ result[i] # NoResult
              /\ execCalls[i] = 1
        /\ (pc[i] # "idle" /\ tool[i] \in ParameterlessTools /\ prevTool = tool[i]) =>
              path[i] = prevPath
C10_Witness ==
    /\ pc[1] = "returned" /\ tool[1] = "media_next" /\ prevTool = "media_next"
    /\ toolResult[1].success = FALSE /\ "status_code" \in DOMAIN toolResult[1]

====
